---------------------------- MODULE Spec2Model ----------------------------
(***************************************************************************)
(* Model of streamlit_app/app.py: the OEE / downtime-Pareto / SPC          *)
(* dashboard script.  Streamlit re-executes the whole script on every      *)
(* widget interaction, so each widget change is one action that runs the   *)
(* script top to bottom on the cached raw tables and the widget values.    *)
(*                                                                         *)
(* Numbers.  The ratio columns are float64.  They are modelled as exact    *)
(* rationals in lowest terms, extended with the two IEEE values the        *)
(* script can produce from its non-negative operands: +inf (x/0, x > 0)    *)
(* and NaN (0/0, inf*0).  Rounding error of float64 is not modelled.       *)
(*                                                                         *)
(* Exceptions.  An uncaught exception ends the script run; the names       *)
(* after it stay unbound.  The only one the script can raise on            *)
(* well-formed tables is the IndexError of date_range[0] / date_range[1]   *)
(* while the date widget holds fewer than two dates.                       *)
(*                                                                         *)
(* Sorting.  groupby() returns its groups in ascending key order.          *)
(* sort_values() is called with the default kind="quicksort", which is     *)
(* not stable: the order of rows with equal minutes depends on the numpy   *)
(* build (insertion sort keeps them in label order, the vectorised sorts   *)
(* do not), but is the same on every call.  tie_rank is that order, fixed  *)
(* when the program starts.                                                *)
(***************************************************************************)
EXTENDS Integers, Sequences, FiniteSets, TLC

VARIABLES
    df_minutely,   \* load_data(): factory_data.csv, sequence of minute rows
    df_downtime,   \* load_data(): downtime_pareto.csv, sequence of events
    df_spc,        \* load_data(): spc_xbar_r.csv, sequence of samples
    tie_rank,      \* order in which this build's quicksort leaves equal keys
    machine,       \* st.sidebar.selectbox("Machine")
    shift,         \* st.sidebar.multiselect("Shift")
    date_range,    \* st.sidebar.date_input("Date Range"): tuple of 0-2 dates
    last_run,      \* what the last script run bound: see Script
    kpi_arg,       \* argument of the last kpi_status call
    kpi_ret        \* value the last kpi_status call returned

raw == <<df_minutely, df_downtime, df_spc, tie_rank>>
selection == <<machine, shift, date_range>>
vars == <<raw, selection, last_run, kpi_arg, kpi_ret>>

---------------------------------------------------------------------------
(* Bounds of the explored inputs *)

MaxRecords == 2    \* rows of the minute log
MaxUnits == 1      \* units produced in one minute
MaxDay == 2        \* calendar days 1..MaxDay
MaxEvents == 2     \* rows of the downtime log
MaxMinutes == 3    \* minutes of one downtime event
GridBelow == 20    \* kpi_status arguments start at -GridBelow/GridDen
GridSpan == 160    \* ... and cover GridSpan+1 consecutive steps
GridDen == 100     \* ... of size 1/GridDen

Machines == {"M1", "M2"}
Shifts == {"A", "B"}
Causes == {"A", "B", "C"}
Days == 1..MaxDay

\* sorted() order of the labels (strings compare lexicographically)
LabelOrder == <<"A", "B", "C", "D", "M1", "M2">>
LabelPos ==
    [l \in {LabelOrder[i] : i \in DOMAIN LabelOrder} |->
        CHOOSE i \in DOMAIN LabelOrder : LabelOrder[i] = l]
LabelIndex(l) == LabelPos[l]

---------------------------------------------------------------------------
(* float64 values: rationals, +inf, NaN *)

RECURSIVE GCD(_, _)
GCD(a, b) == IF b = 0 THEN a ELSE GCD(b, a % b)

Abs(x) == IF x < 0 THEN -x ELSE x

\* the rational n/d (d > 0) in lowest terms
Q(n, d) ==
    LET g == GCD(Abs(n), d)
    IN  [k |-> "num", n |-> n \div g, d |-> d \div g]

NaN == [k |-> "nan", n |-> 0, d |-> 1]
PosInf == [k |-> "inf", n |-> 1, d |-> 1]
Unbound == [k |-> "unbound", n |-> 0, d |-> 1]   \* name never assigned

IsNum(v) == v.k = "num"
Int2F(i) == Q(i, 1)

\* comparisons of float64 values; every comparison with NaN is False
Geq(a, b) ==
    CASE a.k = "nan" \/ b.k = "nan" -> FALSE
      [] a.k = "inf" -> TRUE
      [] b.k = "inf" -> FALSE
      [] OTHER -> a.n * b.d >= b.n * a.d

\* Series / Series on non-negative integer columns (numpy true division)
TrueDiv(x, y) ==
    IF y = 0 THEN (IF x = 0 THEN NaN ELSE PosInf) ELSE Q(x, y)

\* float * float for non-negative operands
Mul(a, b) ==
    CASE a.k = "nan" \/ b.k = "nan" -> NaN
      [] a.k = "inf" -> IF b.k = "num" /\ b.n = 0 THEN NaN ELSE PosInf
      [] b.k = "inf" -> IF a.n = 0 THEN NaN ELSE PosInf
      [] OTHER -> Q(a.n * b.n, a.d * b.d)

Add(a, b) ==
    CASE a.k = "nan" \/ b.k = "nan" -> NaN
      [] a.k = "inf" \/ b.k = "inf" -> PosInf
      [] OTHER -> Q(a.n * b.d + b.n * a.d, a.d * b.d)

RECURSIVE SumF(_)
SumF(s) == IF s = <<>> THEN Int2F(0) ELSE Add(s[1], SumF(Tail(s)))

\* Series.mean(): skipna=True drops the NaN entries, the mean of nothing is NaN
Mean(s) ==
    LET kept == SelectSeq(s, LAMBDA v : v.k # "nan")
    IN  IF kept = <<>> THEN NaN
        ELSE LET t == SumF(kept)
             IN  IF t.k = "inf" THEN PosInf ELSE Q(t.n, t.d * Len(kept))

\* Series.max(): skipna=True, the max of nothing is NaN
RECURSIVE MaxF(_)
MaxF(s) ==
    IF s = <<>> THEN NaN
    ELSE IF Len(s) = 1 THEN s[1]
    ELSE LET m == MaxF(Tail(s)) IN IF Geq(s[1], m) THEN s[1] ELSE m

\* f"{v:.1%}": the percentage with one decimal, as tenths of a percent
\* (round-half-even of v*1000); nan and inf print as "nan%" and "inf%"
FormatPct(v) ==
    CASE v.k = "nan" -> [text |-> "nan%", tenths |-> 0]
      [] v.k = "inf" -> [text |-> "inf%", tenths |-> 0]
      [] OTHER ->
         LET num == 1000 * v.n
             fl == num \div v.d
             twice == 2 * (num - fl * v.d)
             r == IF twice > v.d THEN fl + 1
                  ELSE IF twice < v.d THEN fl
                  ELSE IF fl % 2 = 0 THEN fl ELSE fl + 1
         IN  [text |-> "pct", tenths |-> r]

---------------------------------------------------------------------------
(* Helpers for tables (sequences of rows) *)

RECURSIVE SumCol(_, _)
SumCol(rows, col) ==
    IF rows = <<>> THEN 0 ELSE rows[1][col] + SumCol(Tail(rows), col)

\* groupby() sorts the group keys ascending
RECURSIVE SortedInts(_)
SortedInts(S) ==
    IF S = {} THEN <<>>
    ELSE LET m == CHOOSE x \in S : \A y \in S : x <= y
         IN  <<m>> \o SortedInts(S \ {m})

RECURSIVE SortedLabels(_)
SortedLabels(S) ==
    IF S = {} THEN <<>>
    ELSE LET m == CHOOSE x \in S : \A y \in S : LabelIndex(x) <= LabelIndex(y)
         IN  <<m>> \o SortedLabels(S \ {m})

Column(rows, col) == [i \in DOMAIN rows |-> rows[i][col]]
Unique(rows, col) == {rows[i][col] : i \in DOMAIN rows}

---------------------------------------------------------------------------
(* The script, top to bottom *)

IDEAL_RATE == 6

\* the widgets' options and their values on the first run
MachineOptions(minutely) == SortedLabels(Unique(minutely, "machine"))
DefaultMachine(minutely) == MachineOptions(minutely)[1]
DefaultShift(minutely) == Unique(minutely, "shift")
DefaultDateRange(minutely) ==
    LET dates == SortedInts({minutely[i].timestamp.date : i \in DOMAIN minutely})
    IN  <<dates[1], dates[Len(dates)]>>

\* date_range[0] and date_range[1] raise IndexError on a shorter tuple
FilterRaises(dr) == Len(dr) < 2

\* mutant of Filter: the shift condition is dropped
FilterIgnoresShift(minutely, m, sh, dr) ==
    SelectSeq(minutely,
              LAMBDA r : /\ r.machine = m
                         /\ r.timestamp.date >= dr[1]
                         /\ r.timestamp.date <= dr[2])

Filter(minutely, m, sh, dr) ==
    SelectSeq(minutely,
              LAMBDA r : /\ r.machine = m
                         /\ r.shift \in sh
                         /\ r.timestamp.date >= dr[1]
                         /\ r.timestamp.date <= dr[2])

GroupByDay(f) ==
    LET keys == SortedInts(Unique(f, "day"))
    IN  [i \in 1..Len(keys) |->
            LET g == SelectSeq(f, LAMBDA r : r.day = keys[i])
            IN  [day |-> keys[i],
                 planned_min |-> Len(g),
                 running_min |-> SumCol(g, "is_running"),
                 total_units |-> SumCol(g, "units"),
                 good_units |-> SumCol(g, "good_units")]]

\* mutant of WithRatios: performance is taken over the planned minutes
WithRatiosOverPlanned(row) ==
    LET availability == TrueDiv(row.running_min, row.planned_min)
        performance == TrueDiv(row.total_units, IDEAL_RATE * row.planned_min)
        quality == TrueDiv(row.good_units, row.total_units)
    IN  [day |-> row.day,
         planned_min |-> row.planned_min,
         running_min |-> row.running_min,
         total_units |-> row.total_units,
         good_units |-> row.good_units,
         availability |-> availability,
         performance |-> performance,
         quality |-> quality,
         oee |-> Mul(Mul(availability, performance), quality)]

WithRatios(row) ==
    LET availability == TrueDiv(row.running_min, row.planned_min)
        performance == TrueDiv(row.total_units, IDEAL_RATE * row.running_min)
        quality == TrueDiv(row.good_units, row.total_units)
    IN  [day |-> row.day,
         planned_min |-> row.planned_min,
         running_min |-> row.running_min,
         total_units |-> row.total_units,
         good_units |-> row.good_units,
         availability |-> availability,
         performance |-> performance,
         quality |-> quality,
         oee |-> Mul(Mul(availability, performance), quality)]

DailyOee(f) ==
    LET agg == GroupByDay(f)
    IN  [i \in DOMAIN agg |-> WithRatios(agg[i])]

\* mutant of kpi_status: the upper threshold is exclusive
kpi_status_exclusive(value) ==
    IF Geq(value, Q(85, 100)) /\ value # Q(85, 100) THEN "green"
    ELSE IF Geq(value, Q(75, 100)) THEN "yellow"
    ELSE "red"

\* the markers are the green, yellow and red circle emoji
kpi_status(value) ==
    IF Geq(value, Q(85, 100)) THEN "green"
    ELSE IF Geq(value, Q(75, 100)) THEN "yellow"
    ELSE "red"

Metrics(oee, av, perf, qual) ==
    << [label |-> "OEE", value |-> FormatPct(oee), delta |-> kpi_status(oee)],
       [label |-> "Availability", value |-> FormatPct(av), delta |-> kpi_status(av)],
       [label |-> "Performance", value |-> FormatPct(perf), delta |-> "none"],
       [label |-> "Quality", value |-> FormatPct(qual), delta |-> "none"] >>

GroupByCause(events) ==
    LET keys == SortedLabels(Unique(events, "cause"))
    IN  [i \in 1..Len(keys) |->
            [cause |-> keys[i],
             minutes |-> SumCol(SelectSeq(events, LAMBDA e : e.cause = keys[i]),
                                "minutes")]]

\* sort_values("minutes", ascending=False) with the default kind="quicksort",
\* which is not stable: rows with equal minutes come out in an order the
\* numpy build decides (rank), the same on every call
Before(a, b, rank) ==
    \/ a.minutes > b.minutes
    \/ a.minutes = b.minutes /\ rank[a.cause] < rank[b.cause]

RECURSIVE SortRows(_, _)
SortRows(S, rank) ==
    IF S = {} THEN <<>>
    ELSE LET top == CHOOSE a \in S : \A b \in S \ {a} : Before(a, b, rank)
         IN  <<top>> \o SortRows(S \ {top}, rank)

\* mutant of SortValues: ascending=False is left out
SortValuesAscending(rows, rank) ==
    LET desc == SortRows({rows[i] : i \in DOMAIN rows}, rank)
    IN  [i \in DOMAIN desc |-> desc[Len(desc) + 1 - i]]

SortValues(rows, rank) == SortRows({rows[i] : i \in DOMAIN rows}, rank)

WithCumPct(rows) ==
    LET total == SumCol(rows, "minutes")
    IN  [i \in DOMAIN rows |->
            [cause |-> rows[i].cause,
             minutes |-> rows[i].minutes,
             cum_pct |-> TrueDiv(SumCol(SubSeq(rows, 1, i), "minutes"), total)]]

\* mutant of DowntimePareto: the cumulative share is taken before the sort
DowntimeParetoCumFirst(downtime, m, rank) ==
    SortValues(WithCumPct(
        GroupByCause(SelectSeq(downtime, LAMBDA e : e.machine = m))), rank)

DowntimePareto(downtime, m, rank) ==
    WithCumPct(SortValues(
        GroupByCause(SelectSeq(downtime, LAMBDA e : e.machine = m)), rank))

SpcSummary(spc, m) ==
    LET sel == SelectSeq(spc, LAMBDA x : x.machine = m)
        xbar == [i \in DOMAIN sel |-> Int2F(sel[i].xbar)]
        R == [i \in DOMAIN sel |-> Int2F(sel[i].R)]
    IN  [avg_xbar |-> Mean(xbar), avg_range |-> Mean(R), max_range |-> MaxF(R)]

\* One execution of the script on the widget values m, sh, dr: the names it
\* binds (error: the exception that stopped it, or "none"; pred_range: the
\* bounds its filter predicate compared the dates to; filtered, daily_oee,
\* avg_*, dt, spc_summary: the script's variables; metrics: the st.metric
\* calls).  An exception in the filter expression stops the run there.
Script(minutely, downtime, spc, rank, m, sh, dr) ==
    IF FilterRaises(dr)
    THEN [error |-> "IndexError", pred_range |-> <<>>, filtered |-> <<>>,
          daily_oee |-> <<>>, avg_oee |-> Unbound, avg_av |-> Unbound,
          avg_perf |-> Unbound, avg_qual |-> Unbound, metrics |-> <<>>,
          dt |-> <<>>, spc_summary |-> <<>>]
    ELSE LET f == Filter(minutely, m, sh, dr)
             oee == DailyOee(f)
             a_oee == Mean(Column(oee, "oee"))
             a_av == Mean(Column(oee, "availability"))
             a_perf == Mean(Column(oee, "performance"))
             a_qual == Mean(Column(oee, "quality"))
         IN  [error |-> "none", pred_range |-> <<dr[1], dr[2]>>, filtered |-> f,
              daily_oee |-> oee, avg_oee |-> a_oee, avg_av |-> a_av,
              avg_perf |-> a_perf, avg_qual |-> a_qual,
              metrics |-> Metrics(a_oee, a_av, a_perf, a_qual),
              dt |-> DowntimePareto(downtime, m, rank),
              spc_summary |-> <<SpcSummary(spc, m)>>]

---------------------------------------------------------------------------
(* The raw tables load_data() can return *)

MinuteRows ==
    {r \in [machine : Machines, shift : Shifts, day : Days,
            is_running : {0, 1}, units : 0..MaxUnits, good_units : 0..MaxUnits] :
        r.good_units <= r.units}

\* the timestamp column: row i is minute i of its day
Stamp(rows) ==
    [i \in DOMAIN rows |->
        [timestamp |-> [date |-> rows[i].day, minute |-> i],
         machine |-> rows[i].machine, shift |-> rows[i].shift,
         day |-> rows[i].day, is_running |-> rows[i].is_running,
         units |-> rows[i].units, good_units |-> rows[i].good_units]]

MinuteLogs ==
    {Stamp(rows) : rows \in UNION {[1..n -> MinuteRows] : n \in 1..MaxRecords}}

\* minutes is a positive duration
DowntimeEvents == [machine : Machines, cause : Causes, minutes : 1..MaxMinutes]
DowntimeLogs == UNION {[1..n -> DowntimeEvents] : n \in 0..MaxEvents}

AllCauses == Causes \union {"D"}
LabelRank == [c \in AllCauses |-> LabelIndex(c)]   \* what a stable sort gives
\* the tie orders of the causes that occur in DowntimeLogs
TieRanks ==
    {r \in [AllCauses -> 1..Cardinality(AllCauses)] :
        /\ \A a, b \in AllCauses : a # b => r[a] # r[b]
        /\ \A c \in AllCauses \ Causes : r[c] = LabelRank[c]}

MinuteRow(m, sh, d, run, u, g) ==
    [machine |-> m, shift |-> sh, day |-> d, is_running |-> run,
     units |-> u, good_units |-> g]
Event(m, c, mins) == [machine |-> m, cause |-> c, minutes |-> mins]
Sample(m, x, r) == [machine |-> m, xbar |-> x, R |-> r]

ExampleMinutely ==
    { Stamp(<< MinuteRow("M1", "A", 1, 1, 5, 5), MinuteRow("M1", "A", 1, 1, 6, 5),
               MinuteRow("M1", "B", 1, 0, 0, 0), MinuteRow("M1", "B", 2, 1, 4, 4),
               MinuteRow("M2", "A", 1, 1, 6, 6), MinuteRow("M2", "B", 2, 0, 0, 0) >>),
      Stamp(<< MinuteRow("M1", "A", 1, 0, 0, 0), MinuteRow("M2", "A", 2, 1, 7, 7),
               MinuteRow("M2", "B", 2, 1, 3, 0) >>) }

ExampleDowntime ==
    { << Event("M1", "B", 80), Event("M1", "A", 70), Event("M2", "C", 30),
         Event("M1", "D", 10), Event("M1", "C", 50), Event("M1", "A", 50) >>,
      << Event("M1", "C", 5), Event("M1", "A", 5), Event("M2", "B", 4) >> }

ExampleSpc ==
    { << Sample("M1", 10, 2), Sample("M1", 11, 4), Sample("M2", 9, 1) >>,
      << Sample("M1", 10, 3) >> }

OneMinutely ==
    Stamp(<< MinuteRow("M1", "A", 1, 1, 1, 1), MinuteRow("M2", "A", 2, 0, 0, 0) >>)
OneDowntime == << Event("M1", "B", 2), Event("M2", "A", 1) >>
OneSpc == << Sample("M1", 10, 2), Sample("M2", 9, 1) >>

\* what st.date_input can return for a range: a tuple of 0, 1 or 2 dates (the
\* user has cleared the field, has picked only the start, has picked both).
\* The script puts no order on the two dates.
DateSelections == UNION {[1..n -> Days] : n \in 0..2}

---------------------------------------------------------------------------
(* State machine *)

NoCall == "no call"

\* first run of the script: widgets at their defaults
FirstRun ==
    LET r == Script(df_minutely, df_downtime, df_spc, tie_rank,
                    DefaultMachine(df_minutely), DefaultShift(df_minutely),
                    DefaultDateRange(df_minutely))
    IN  /\ machine = DefaultMachine(df_minutely)
        /\ shift = DefaultShift(df_minutely)
        /\ date_range = DefaultDateRange(df_minutely)
        /\ last_run = r

\* exhaustive minute logs, one downtime log and one SPC log
Init ==
    /\ df_minutely \in MinuteLogs
    /\ df_downtime = OneDowntime
    /\ df_spc = OneSpc
    /\ tie_rank = LabelRank
    /\ FirstRun
    /\ kpi_arg = NaN
    /\ kpi_ret = NoCall

\* exhaustive downtime logs and tie orders, one minute log
InitPareto ==
    /\ tie_rank \in TieRanks
    /\ df_minutely = OneMinutely
    /\ df_downtime \in DowntimeLogs
    /\ df_spc = OneSpc
    /\ FirstRun
    /\ kpi_arg = NaN
    /\ kpi_ret = NoCall

\* the example tables, all three varying
InitExamples ==
    /\ df_minutely \in ExampleMinutely
    /\ df_downtime \in ExampleDowntime
    /\ df_spc \in ExampleSpc
    /\ tie_rank \in {LabelRank, [c \in AllCauses |-> 7 - LabelIndex(c)]}
    /\ FirstRun
    /\ kpi_arg = NaN
    /\ kpi_ret = NoCall

\* mutant of Rerun: the filter result is assigned back to the raw frame
RerunInPlace(m, sh, dr) ==
    LET r == Script(df_minutely, df_downtime, df_spc, tie_rank, m, sh, dr)
    IN  /\ machine' = m
        /\ shift' = sh
        /\ date_range' = dr
        /\ last_run' = r
        /\ df_minutely' = r.filtered
        /\ UNCHANGED <<df_downtime, df_spc, tie_rank, kpi_arg, kpi_ret>>

\* a script run on the widget values m, sh, dr
Rerun(m, sh, dr) ==
    LET r == Script(df_minutely, df_downtime, df_spc, tie_rank, m, sh, dr)
    IN  /\ machine' = m
        /\ shift' = sh
        /\ date_range' = dr
        /\ last_run' = r
        /\ UNCHANGED <<raw, kpi_arg, kpi_ret>>

SelectMachine ==
    \E m \in Unique(df_minutely, "machine") :
        m # machine /\ Rerun(m, shift, date_range)

SelectShift ==
    \E sh \in SUBSET Unique(df_minutely, "shift") :
        sh # shift /\ Rerun(machine, sh, date_range)

SelectDateRange ==
    \E dr \in DateSelections :
        dr # date_range /\ Rerun(machine, shift, dr)

\* any other rerun (page reload): same widget values
Refresh == Rerun(machine, shift, date_range)

Next == SelectMachine \/ SelectShift \/ SelectDateRange \/ Refresh

Spec == Init /\ [][Next]_vars
SpecPareto == InitPareto /\ [][Next]_vars
SpecExamples == InitExamples /\ [][Next]_vars

\* kpi_status on its own: arguments from a grid of ratios around [0, 1]
KpiGrid == {Q(i - GridBelow, GridDen) : i \in 0..GridSpan} \union {PosInf}

InitKpi ==
    /\ df_minutely = OneMinutely
    /\ df_downtime = OneDowntime
    /\ df_spc = OneSpc
    /\ tie_rank = LabelRank
    /\ FirstRun
    /\ kpi_arg \in KpiGrid
    /\ kpi_ret = NoCall

CallKpiStatus ==
    /\ kpi_ret = NoCall
    /\ kpi_ret' = kpi_status(kpi_arg)
    /\ UNCHANGED <<raw, selection, last_run, kpi_arg>>

SpecKpi == InitKpi /\ [][CallKpiStatus]_vars

---------------------------------------------------------------------------
(* Properties *)

\* sum of w[i] over the index set I
RECURSIVE SumOver(_, _)
SumOver(I, w) ==
    IF I = {} THEN 0
    ELSE LET i == CHOOSE x \in I : TRUE IN w[i] + SumOver(I \ {i}, w)

Ran == last_run.error = "none"
InUnit(v) == v.k = "num" /\ 0 <= v.n /\ v.n <= v.d
NonNeg(v) == v.k \in {"num", "inf"} /\ v.n >= 0
Markers == {"green", "yellow", "red"}

\* C1: the OEE aggregation yields exactly one row per distinct day of the
\* filtered records; planned_min is the number of the day's records,
\* running_min, total_units and good_units are the sums of is_running, units
\* and good_units; with non-zero denominators availability =
\* running_min/planned_min, performance = total_units/(6*running_min),
\* quality = good_units/total_units and oee is their product
\* (480/450/2500/2450 gives 15/16, 2500/2700, 49/50).
C1_DailyOeeRows ==
    /\ Ran =>
        LET f == last_run.filtered
            t == last_run.daily_oee
            days == {f[i].day : i \in DOMAIN f}
            of(d) == {i \in DOMAIN f : f[i].day = d}
        IN  /\ Len(t) = Cardinality(days)
            /\ \A d \in days : Cardinality({j \in DOMAIN t : t[j].day = d}) = 1
            /\ \A j \in DOMAIN t :
                 LET I == of(t[j].day)
                     p == t[j].planned_min
                     r == t[j].running_min
                     u == t[j].total_units
                     g == t[j].good_units
                 IN  /\ t[j].day \in days
                     /\ p = Cardinality(I)
                     /\ r = SumOver(I, [i \in I |-> f[i].is_running])
                     /\ u = SumOver(I, [i \in I |-> f[i].units])
                     /\ g = SumOver(I, [i \in I |-> f[i].good_units])
                     /\ p # 0 /\ t[j].availability = Q(r, p)
                     /\ r # 0 => t[j].performance = Q(u, 6 * r)
                     /\ u # 0 => t[j].quality = Q(g, u)
                     /\ (r # 0 /\ u # 0) => t[j].oee = Q(r * u * g, p * 6 * r * u)
    /\ LET row == WithRatios([day |-> 1, planned_min |-> 480, running_min |-> 450,
                              total_units |-> 2500, good_units |-> 2450])
       IN  /\ row.availability = Q(9375, 10000)
           /\ row.performance = Q(2500, 2700)
           /\ row.quality = Q(98, 100)
           /\ row.oee = Q(15 * 25 * 49, 16 * 27 * 50)

\* a day of two records, one of them running, one unit produced and good
C1_Witness ==
    /\ Ran
    /\ \E j \in DOMAIN last_run.daily_oee :
         /\ last_run.daily_oee[j].planned_min = 2
         /\ last_run.daily_oee[j].running_min = 1
         /\ last_run.daily_oee[j].total_units = 1
         /\ last_run.daily_oee[j].good_units = 1

\* C2: every DailyOEE row has availability in [0,1], quality in [0,1] and
\* performance >= 0.
C2_RatiosInRange ==
    Ran => \A j \in DOMAIN last_run.daily_oee :
             /\ InUnit(last_run.daily_oee[j].availability)
             /\ InUnit(last_run.daily_oee[j].quality)
             /\ NonNeg(last_run.daily_oee[j].performance)

\* C3: on a day with running_min = 0 or total_units = 0 no ratio is infinite,
\* and no aggregate KPI is infinite, or undefined while the table has rows.
C3_DivisionByZeroHandled ==
    Ran =>
        /\ \A j \in DOMAIN last_run.daily_oee :
             /\ last_run.daily_oee[j].performance.k # "inf"
             /\ last_run.daily_oee[j].quality.k # "inf"
             /\ last_run.daily_oee[j].oee.k # "inf"
        /\ \A a \in {last_run.avg_oee, last_run.avg_av,
                     last_run.avg_perf, last_run.avg_qual} :
             /\ a.k # "inf"
             /\ last_run.daily_oee # <<>> => a.k # "nan"

\* the predicate of the filter on a minute record
Selected(r) ==
    /\ r.machine = machine
    /\ r.shift \in shift
    /\ date_range[1] <= r.day
    /\ r.day <= date_range[2]

\* C6: a selection that no minute record satisfies (an empty shift subset in
\* particular) yields a DailyOEE table with zero rows and no error.
C6_EmptySelection ==
    (/\ Len(date_range) = 2
     /\ \A i \in DOMAIN df_minutely : ~Selected(df_minutely[i]))
    => /\ Ran
       /\ last_run.filtered = <<>>
       /\ last_run.daily_oee = <<>>

\* the shift subset is empty and the date range holds records of the machine
C6_Witness ==
    /\ shift = {}
    /\ Len(date_range) = 2
    /\ \E i \in DOMAIN df_minutely :
         /\ df_minutely[i].machine = machine
         /\ date_range[1] <= df_minutely[i].day
         /\ df_minutely[i].day <= date_range[2]
    /\ Ran
    /\ last_run.daily_oee = <<>>

\* C7: with an empty DailyOEE table no aggregate KPI is shown as a numeric
\* percentage or given a good/warning/critical status.
C7_NoDataOutcome ==
    (Ran /\ last_run.daily_oee = <<>>) =>
        \A i \in DOMAIN last_run.metrics :
            /\ last_run.metrics[i].value.text # "pct"
            /\ last_run.metrics[i].delta \notin Markers

\* C8: a date range whose start is after its end is rejected, or clamped
\* before the filter predicate uses it.
C8_InvertedRangeRejected ==
    (Len(date_range) = 2 /\ date_range[1] > date_range[2]) =>
        \/ last_run.error = "ValidationError"
        \/ Ran /\ last_run.pred_range[1] <= last_run.pred_range[2]

\* C9: kpi_status returns the good marker exactly when value >= 0.85, the
\* warning marker exactly when 0.75 <= value < 0.85 and the critical marker
\* exactly when value < 0.75, also outside [0,1].
C9_KpiStatusThresholds ==
    kpi_ret # NoCall =>
        LET ge85 == kpi_arg.k = "inf" \/ 100 * kpi_arg.n >= 85 * kpi_arg.d
            ge75 == kpi_arg.k = "inf" \/ 100 * kpi_arg.n >= 75 * kpi_arg.d
        IN  /\ kpi_ret \in Markers
            /\ kpi_ret = "green" <=> ge85
            /\ kpi_ret = "yellow" <=> (ge75 /\ ~ge85)
            /\ kpi_ret = "red" <=> ~ge75

\* kpi_status(0.80) returned the warning marker
C9_Witness == kpi_arg = Q(80, 100) /\ kpi_ret = "yellow"

\* the downtime events of the selected machine, by index in the log
MachineEvents == {i \in DOMAIN df_downtime : df_downtime[i].machine = machine}
CauseEvents(c) == {i \in MachineEvents : df_downtime[i].cause = c}
MinutesOf(I) == SumOver(I, [i \in I |-> df_downtime[i].minutes])
FirstSeen(c) == CHOOSE i \in CauseEvents(c) : \A k \in CauseEvents(c) : i <= k

\* one row per cause of the selected machine, holding the cause's minutes
OneRowPerCause(t) ==
    LET causes == {df_downtime[i].cause : i \in MachineEvents}
    IN  /\ Len(t) = Cardinality(causes)
        /\ \A c \in causes : Cardinality({j \in DOMAIN t : t[j].cause = c}) = 1
        /\ \A j \in DOMAIN t :
             /\ t[j].cause \in causes
             /\ t[j].minutes = MinutesOf(CauseEvents(t[j].cause))

NonIncreasing(t) ==
    \A j \in DOMAIN t : j < Len(t) => t[j].minutes >= t[j + 1].minutes

\* the downtime log of the example {A:120, B:80, C:50, D:10}
PaperDowntime == CHOOSE l \in ExampleDowntime : Len(l) = 6

\* C4 (as stated): one row per cause with the cause's summed minutes, minutes
\* non-increasing, and causes with equal minutes in the order in which the
\* cause was first seen in the downtime log.
C4_TiesFirstSeen ==
    Ran =>
        /\ OneRowPerCause(last_run.dt)
        /\ NonIncreasing(last_run.dt)
        /\ \A j \in DOMAIN last_run.dt :
             (j < Len(last_run.dt)
              /\ last_run.dt[j].minutes = last_run.dt[j + 1].minutes)
             => FirstSeen(last_run.dt[j].cause) < FirstSeen(last_run.dt[j + 1].cause)

\* C4 (amended): one row per cause with the cause's summed minutes, minutes
\* non-increasing from row to row; the order of causes with equal minutes is
\* not fixed by the log ({A:120, B:80, C:50, D:10} is shown as A, B, C, D).
C4_SortedSums ==
    /\ Ran => OneRowPerCause(last_run.dt) /\ NonIncreasing(last_run.dt)
    /\ \A rank \in TieRanks :
         Column(DowntimePareto(PaperDowntime, "M1", rank), "cause")
            = <<"A", "B", "C", "D">>

\* two causes, the one later in label order first because it has more minutes
C4_Witness ==
    /\ Ran
    /\ Len(last_run.dt) = 2
    /\ last_run.dt[1].minutes > last_run.dt[2].minutes
    /\ LabelIndex(last_run.dt[1].cause) > LabelIndex(last_run.dt[2].cause)

\* C5: cum_pct of row k is (minutes of rows 1..k) / (total minutes of the
\* machine); with total minutes > 0 it is non-decreasing down the rows and 1
\* at the last row ({A:120, B:80, C:50, D:10}: 120/260, 200/260, 250/260, 1).
C5_CumulativeShare ==
    /\ (Ran /\ MinutesOf(MachineEvents) > 0) =>
         LET t == last_run.dt
             total == MinutesOf(MachineEvents)
             upto(k) == SumOver(1..k, [j \in 1..k |-> t[j].minutes])
         IN  /\ t # <<>>
             /\ \A k \in DOMAIN t :
                  /\ t[k].cum_pct = Q(upto(k), total)
                  /\ k < Len(t) =>
                       /\ IsNum(t[k + 1].cum_pct)
                       /\ t[k].cum_pct.n * t[k + 1].cum_pct.d
                            <= t[k + 1].cum_pct.n * t[k].cum_pct.d
             /\ t[Len(t)].cum_pct = Q(1, 1)
    /\ Column(DowntimePareto(PaperDowntime, "M1", LabelRank), "cum_pct")
         = <<Q(120, 260), Q(200, 260), Q(250, 260), Q(1, 1)>>

\* two rows of 2 and 1 minutes: shares 2/3 and 1
C5_Witness ==
    /\ Ran
    /\ Len(last_run.dt) = 2
    /\ last_run.dt[1].cum_pct = Q(2, 3)
    /\ last_run.dt[2].cum_pct = Q(1, 1)

\* C10: filter changes never change the raw tables; a run with unchanged
\* filter values gives the same results again; and what is shown is always
\* what one run of the script on the raw tables and the current filter
\* values gives, whatever was selected before.
C10_FreshRecomputation ==
    /\ [][raw' = raw]_vars
    /\ [][selection' = selection => last_run' = last_run]_vars
    /\ [](last_run = Script(df_minutely, df_downtime, df_spc, tie_rank,
                            machine, shift, date_range))

\* every widget was moved off its default and the run shows rows
C10_Witness ==
    /\ machine # DefaultMachine(df_minutely)
    /\ shift # DefaultShift(df_minutely)
    /\ date_range # DefaultDateRange(df_minutely)
    /\ Ran
    /\ last_run.daily_oee # <<>>
    /\ last_run.dt # <<>>

===========================================================================
